---- MODULE Spec2Model ----
(***************************************************************************)
(* Model of the travel itinerary generator (sittjoe/viajes-reservas):      *)
(*   app/services/text_extractor.py    TextExtractor                       *)
(*   app/services/itinerary_builder.py ItineraryBuilder                    *)
(*   app/main.py                       the request handlers and the store  *)
(*                                                                         *)
(* Python strings whose characters matter (they are split, lower-cased,    *)
(* sorted, searched or sliced) are sequences of Unicode code points; a     *)
(* comment beside each literal gives its text.  Strings that are only      *)
(* copied are TLA+ strings.                                                *)
(***************************************************************************)
EXTENDS Integers, Sequences, FiniteSets, TLC

VARIABLES
    \* ---- ItineraryBuilder.build called on its own (SpecBuild)
    b_request,      \* the ItineraryRequest handed to build
    b_text,         \* extracted_text handed to build
    b_pc,           \* "call" before build ran, "done" after
    b_highlights,   \* curated_highlights, the local of _build_daily_schedule
    b_result,       \* what build returned or raised
    \* ---- TextExtractor.extract stepped file by file (SpecExtract)
    x_files,        \* the attachments, each with its stream position
    x_idx,          \* index of the next attachment of the for loop
    x_fragments,    \* text_fragments
    x_summaries,    \* summaries
    x_pc,           \* "loop" | "done"
    x_result,       \* the pair extract returned
    \* ---- the request handlers of main.py (Spec)
    pdf_reader,     \* whether PyPDF2 was importable (PdfReader is not None)
    store,          \* _GENERATED_ITINERARIES
    req,            \* per worker thread: the request it is serving
    issued,         \* identifiers generate has returned, with the plan it built
    log,            \* what happened, per finished request
    served          \* number of requests served so far

bvars == <<b_request, b_text, b_pc, b_highlights, b_result>>
xvars == <<x_files, x_idx, x_fragments, x_summaries, x_pc, x_result>>
hvars == <<store, req, issued, log, served>>
vars == <<b_request, b_text, b_pc, b_highlights, b_result,
          x_files, x_idx, x_fragments, x_summaries, x_pc, x_result,
          pdf_reader, store, req, issued, log, served>>

None == "None"

\* None where a dict (a plan) is expected, and where an identifier is
NoPlan == [none |-> TRUE]
NoId == <<"none", 0>>

Min(a, b) == IF a <= b THEN a ELSE b

(***************************************************************************)
(* str                                                                     *)
(***************************************************************************)

\* str.isspace on one character (Latin-1 range)
IsSpace(c) == c \in {9, 10, 11, 12, 13, 28, 29, 30, 31, 32, 133, 160}

\* str.lower on one character (Latin-1 range)
LowerChar(c) ==
    IF c >= 65 /\ c <= 90 THEN c + 32
    ELSE IF c >= 192 /\ c <= 222 /\ c # 215 THEN c + 32
    ELSE c

\* str.lower
Lower(s) == [i \in 1..Len(s) |-> LowerChar(s[i])]

\* str.split() with no separator: maximal runs of non-space characters
RECURSIVE SplitFrom(_, _, _)
SplitFrom(s, i, cur) ==
    IF i > Len(s) THEN (IF cur = <<>> THEN <<>> ELSE <<cur>>)
    ELSE IF IsSpace(s[i])
         THEN (IF cur = <<>> THEN <<>> ELSE <<cur>>) \o SplitFrom(s, i + 1, <<>>)
         ELSE SplitFrom(s, i + 1, Append(cur, s[i]))

Split(s) == SplitFrom(s, 1, <<>>)

\* a < b on str: lexicographic on code points
RECURSIVE StrLess(_, _)
StrLess(a, b) ==
    IF b = <<>> THEN FALSE
    ELSE IF a = <<>> THEN TRUE
    ELSE IF a[1] # b[1] THEN a[1] < b[1]
    ELSE StrLess(Tail(a), Tail(b))

\* sorted(set of str)
RECURSIVE SortedStrs(_)
SortedStrs(S) ==
    IF S = {} THEN <<>>
    ELSE LET m == CHOOSE x \in S : \A y \in S \ {x} : StrLess(x, y)
         IN  <<m>> \o SortedStrs(S \ {m})

\* sub in s
Contains(sub, s) ==
    \E i \in 0..(Len(s) - Len(sub)) : SubSeq(s, i + 1, i + Len(sub)) = sub

\* "".join(seq of str)
RECURSIVE JoinEmpty(_)
JoinEmpty(ss) == IF ss = <<>> THEN <<>> ELSE ss[1] \o JoinEmpty(Tail(ss))

\* "\n".join(seq of str)
RECURSIVE JoinNewline(_)
JoinNewline(ss) ==
    IF ss = <<>> THEN <<>>
    ELSE IF Len(ss) = 1 THEN ss[1]
    ELSE ss[1] \o <<10>> \o JoinNewline(Tail(ss))

\* str(n) for n >= 0, and the zero-padded two-digit form of %d
RECURSIVE Str(_)
Str(n) == IF n < 10 THEN <<48 + n>> ELSE Str(n \div 10) \o <<48 + (n % 10)>>

Pad2(n) == IF n < 10 THEN <<48>> \o Str(n) ELSE Str(n)

\* s[:n]
Slice(s, n) == SubSeq(s, 1, Min(n, Len(s)))

\* s.replace(" ", "_")
ReplaceSpace(s) == [i \in 1..Len(s) |-> IF s[i] = 32 THEN 95 ELSE s[i]]

(***************************************************************************)
(* datetime                                                                *)
(***************************************************************************)

IsLeap(y) == (y % 4 = 0) /\ ((y % 100 # 0) \/ (y % 400 = 0))

DaysInMonth(y, m) ==
    IF m = 2 THEN (IF IsLeap(y) THEN 29 ELSE 28)
    ELSE IF m \in {4, 6, 9, 11} THEN 30
    ELSE 31

RECURSIVE DaysBeforeMonth(_, _)
DaysBeforeMonth(y, m) ==
    IF m = 1 THEN 0 ELSE DaysBeforeMonth(y, m - 1) + DaysInMonth(y, m - 1)

\* datetime.toordinal: 1 for 0001-01-01
Ordinal(d) ==
    LET y == d.year - 1
    IN  y * 365 + (y \div 4) - (y \div 100) + (y \div 400)
        + DaysBeforeMonth(d.year, d.month) + d.day

\* a datetime at midnight, as strptime with a date-only format makes it
Date(y, m, d) == [year |-> y, month |-> m, day |-> d]

NextDay(d) ==
    IF d.day < DaysInMonth(d.year, d.month) THEN Date(d.year, d.month, d.day + 1)
    ELSE IF d.month < 12 THEN Date(d.year, d.month + 1, 1)
    ELSE Date(d.year + 1, 1, 1)

\* date + timedelta(days=n), n >= 0
RECURSIVE PlusDays(_, _)
PlusDays(d, n) == IF n = 0 THEN d ELSE PlusDays(NextDay(d), n - 1)

\* (a - b).days
DaysBetween(a, b) == Ordinal(a) - Ordinal(b)

DayNames ==
    << <<77,111,110,100,97,121>>,                  \* "Monday"
       <<84,117,101,115,100,97,121>>,              \* "Tuesday"
       <<87,101,100,110,101,115,100,97,121>>,      \* "Wednesday"
       <<84,104,117,114,115,100,97,121>>,          \* "Thursday"
       <<70,114,105,100,97,121>>,                  \* "Friday"
       <<83,97,116,117,114,100,97,121>>,           \* "Saturday"
       <<83,117,110,100,97,121>> >>                \* "Sunday"

MonthNames ==
    << <<74,97,110,117,97,114,121>>,               \* "January"
       <<70,101,98,114,117,97,114,121>>,           \* "February"
       <<77,97,114,99,104>>,                       \* "March"
       <<65,112,114,105,108>>,                     \* "April"
       <<77,97,121>>,                              \* "May"
       <<74,117,110,101>>,                         \* "June"
       <<74,117,108,121>>,                         \* "July"
       <<65,117,103,117,115,116>>,                 \* "August"
       <<83,101,112,116,101,109,98,101,114>>,      \* "September"
       <<79,99,116,111,98,101,114>>,               \* "October"
       <<78,111,118,101,109,98,101,114>>,          \* "November"
       <<68,101,99,101,109,98,101,114>> >>         \* "December"

\* datetime.weekday: 0 is Monday
Weekday(d) == (Ordinal(d) + 6) % 7

\* strftime("%d %B %Y"), years of four digits
FormatLong(d) ==
    Pad2(d.day) \o <<32>> \o MonthNames[d.month] \o <<32>> \o Str(d.year)

\* strftime("%A %d %B")
FormatDay(d) ==
    DayNames[Weekday(d) + 1] \o <<32>> \o Pad2(d.day) \o <<32>> \o MonthNames[d.month]

IsDigit(c) == c >= 48 /\ c <= 57

At(s, i) == IF i >= 1 /\ i <= Len(s) THEN s[i] ELSE -1

\* the match of %m at position i: <<value, length>>, <<0, 0>> if none
MatchMonth(s, i) ==
    LET a == At(s, i)
        b == At(s, i + 1)
    IN  IF a = 49 /\ b \in 48..50 THEN <<10 + (b - 48), 2>>
        ELSE IF a = 48 /\ b \in 49..57 THEN <<b - 48, 2>>
        ELSE IF a \in 49..57 THEN <<a - 48, 1>>
        ELSE <<0, 0>>

\* the match of %d at position i: <<value, length>>, <<0, 0>> if none
MatchDay(s, i) ==
    LET a == At(s, i)
        b == At(s, i + 1)
    IN  IF a = 51 /\ b \in 48..49 THEN <<30 + (b - 48), 2>>
        ELSE IF a \in 49..50 /\ IsDigit(b) THEN <<10 * (a - 48) + (b - 48), 2>>
        ELSE IF a = 48 /\ b \in 49..57 THEN <<b - 48, 2>>
        ELSE IF a \in 49..57 THEN <<a - 48, 1>>
        ELSE IF a = 32 /\ b \in 49..57 THEN <<b - 48, 2>>
        ELSE <<0, 0>>

\* _parse_date: datetime.strptime(value, "%Y-%m-%d"); ok = FALSE is ValueError
parse_date(value) ==
    LET yearOk == \A i \in 1..4 : IsDigit(At(value, i))
        y  == 1000 * (At(value, 1) - 48) + 100 * (At(value, 2) - 48)
              + 10 * (At(value, 3) - 48) + (At(value, 4) - 48)
        mm == MatchMonth(value, 6)
        dp == 6 + mm[2] + 1
        dd == MatchDay(value, dp)
        matched == /\ yearOk
                   /\ At(value, 5) = 45
                   /\ mm[2] > 0
                   /\ At(value, 6 + mm[2]) = 45
                   /\ dd[2] > 0
                   /\ dp + dd[2] - 1 = Len(value)
        ok == matched /\ y >= 1 /\ dd[1] <= DaysInMonth(y, mm[1])
    IN  IF ok THEN [ok |-> TRUE, date |-> Date(y, mm[1], dd[1])]
        ELSE [ok |-> FALSE, date |-> None]

(***************************************************************************)
(* TextExtractor                                                           *)
(*                                                                         *)
(* An attachment (FileStorage) is a record:                                *)
(*   filename, mimetype  TLA+ strings, "" when missing                     *)
(*   bytes     the content of the stream                                   *)
(*   pos       the read position of the stream                             *)
(*   pdf       what PyPDF2 makes of the stream: opens (FALSE: PdfReader    *)
(*             raises), pages (each a text, None, or "raise": the page's   *)
(*             extract_text raises), exc (str of the exception), and       *)
(*             left_at (where the parser leaves the read position)         *)
(***************************************************************************)

IsContinuation(b) == b >= 128 /\ b <= 191

\* bytes.decode("utf-8", errors="ignore"), for one- and two-byte sequences:
\* a byte that cannot start or continue a sequence is dropped
RECURSIVE DecodeUtf8(_)
DecodeUtf8(bs) ==
    IF bs = <<>> THEN <<>>
    ELSE IF bs[1] < 128 THEN <<bs[1]>> \o DecodeUtf8(Tail(bs))
    ELSE IF bs[1] >= 194 /\ bs[1] <= 223 /\ Len(bs) >= 2 /\ IsContinuation(bs[2])
         THEN <<(bs[1] % 32) * 64 + (bs[2] % 64)>> \o DecodeUtf8(Tail(Tail(bs)))
    ELSE DecodeUtf8(Tail(bs))

\* attachment.stream.read(): the bytes from the read position on
StreamRead(att) == SubSeq(att.bytes, att.pos + 1, Len(att.bytes))

note_text_ok == <<84,101,120,116,111,32,108,101,237,100,111,32,99,111,114,114,101,99,116,97,109,101,110,116,101,46>>  \* "Texto leído correctamente."
note_pdf_ok == <<84,101,120,116,111,32,101,120,116,114,97,237,100,111,32,100,101,108,32,80,68,70,46>>  \* "Texto extraído del PDF."
note_unsupported == <<70,111,114,109,97,116,111,32,110,111,32,112,114,111,99,101,115,97,100,111,32,97,117,116,111,109,225,116,105,99,97,109,101,110,116,101,59,32,115,101,32,99,111,110,115,105,100,101,114,97,114,225,32,112,97,114,97,32,99,111,110,116,101,120,116,111,32,103,101,110,101,114,97,108,46>>  \* "Formato no procesado automáticamente; se considerará para contexto general."
note_pdf_failed == <<78,111,32,115,101,32,112,117,100,111,32,108,101,101,114,32,101,108,32,80,68,70,58,32>>  \* "No se pudo leer el PDF: "

PageRaises == <<-1>>   \* a page whose extract_text raises
PageEmpty == <<>>      \* a page whose extract_text returns None or ""

\* the pages read before the first page whose extract_text raises
RECURSIVE PagesRead(_)
PagesRead(pages) ==
    IF pages = <<>> \/ pages[1] = PageRaises THEN <<>>
    ELSE <<pages[1]>> \o PagesRead(Tail(pages))

PdfFails(att) ==
    ~att.pdf.opens \/ \E i \in 1..Len(att.pdf.pages) : att.pdf.pages[i] = PageRaises

\* mutant of read_pdf_except: the except clause missing, the exception escapes
read_pdf_uncaught(att) ==
    IF PdfFails(att) THEN [raised |-> TRUE, notes |-> <<>>]
    ELSE [raised |-> FALSE, notes |-> note_pdf_ok]

\* the try/except of _read_pdf, lines 60-66: the note, and whether an
\* exception leaves the function
read_pdf_except(att) ==
    IF PdfFails(att)
    THEN [raised |-> FALSE, notes |-> Slice(note_pdf_failed \o att.pdf.exc, 200)]
    ELSE [raised |-> FALSE, notes |-> note_pdf_ok]

\* the finally clause of _read_pdf, lines 67-68: attachment.stream.seek(0)
read_pdf_finally(att) == [att EXCEPT !.pos = 0]

\* _read_pdf: page texts are appended until a page raises
read_pdf(att, text_fragments) ==
    LET outcome == read_pdf_except(att)
        appended == IF att.pdf.opens THEN PagesRead(att.pdf.pages) ELSE <<>>
    IN  [raised |-> outcome.raised,
         notes |-> outcome.notes,
         fragments |-> text_fragments \o appended,
         att |-> read_pdf_finally(att)]

\* the body of the for loop of extract, lines 43-55
extract_one(att, text_fragments, reader) ==
    LET content_type == IF att.mimetype # "" THEN att.mimetype
                        ELSE "application/octet-stream"
        filename == IF att.filename # "" THEN att.filename ELSE "documento"
        r == IF content_type = "text/plain"
             THEN [raised |-> FALSE,
                   notes |-> note_text_ok,
                   fragments |-> Append(text_fragments, DecodeUtf8(StreamRead(att))),
                   att |-> [att EXCEPT !.pos = Len(att.bytes)]]
             ELSE IF content_type = "application/pdf" /\ reader
             THEN read_pdf(att, text_fragments)
             ELSE [raised |-> FALSE,
                   notes |-> note_unsupported,
                   fragments |-> text_fragments,
                   att |-> att]
    IN  [raised |-> r.raised,
         fragments |-> r.fragments,
         att |-> r.att,
         summary |-> [filename |-> filename,
                      content_type |-> content_type,
                      notes |-> r.notes]]

\* TextExtractor.extract, the loop run from attachment i on
RECURSIVE extract_from(_, _, _, _, _)
extract_from(attachments, i, text_fragments, summaries, reader) ==
    IF i > Len(attachments)
    THEN [raised |-> FALSE,
          text |-> JoinNewline(text_fragments),
          summaries |-> summaries,
          attachments |-> attachments]
    ELSE LET r == extract_one(attachments[i], text_fragments, reader)
         IN  IF r.raised
             THEN [raised |-> TRUE, text |-> <<>>, summaries |-> <<>>,
                   attachments |-> [attachments EXCEPT ![i] = r.att]]
             ELSE extract_from([attachments EXCEPT ![i] = r.att], i + 1,
                               r.fragments, Append(summaries, r.summary), reader)

\* TextExtractor.extract
extract(attachments, reader) == extract_from(attachments, 1, <<>>, <<>>, reader)

(***************************************************************************)
(* ItineraryBuilder                                                        *)
(***************************************************************************)

kw_cultura     == <<99,117,108,116,117,114,97>>                 \* "cultura"
kw_gastronomia == <<103,97,115,116,114,111,110,111,109,237,97>> \* "gastronomía"
kw_aventura    == <<97,118,101,110,116,117,114,97>>             \* "aventura"
kw_relax       == <<114,101,108,97,120>>                        \* "relax"
kw_arte        == <<97,114,116,101>>                            \* "arte"
kw_historia    == <<104,105,115,116,111,114,105,97>>            \* "historia"
kw_family      == <<102,97,109,105,108,121>>                    \* "family"
kw_familia     == <<102,97,109,105,108,105,97>>                 \* "familia"
kw_negocio     == <<110,101,103,111,99,105,111>>                \* "negocio"
kw_corporativo == <<99,111,114,112,111,114,97,116,105,118,111>> \* "corporativo"
kw_gastronom   == <<103,97,115,116,114,111,110,111,109>>        \* "gastronom"

ThemeKeywords ==
    {kw_cultura, kw_gastronomia, kw_aventura, kw_relax, kw_arte, kw_historia}

LuxuryStyles ==
    { <<112,114,101,109,105,117,109>>,     \* "premium"
      <<108,117,106,111>>,                 \* "lujo"
      <<108,117,120,117,114,121>> }        \* "luxury"

AdventureStyles ==
    { <<97,118,101,110,116,117,114,97>>,                      \* "aventura"
      <<101,120,112,101,114,105,101,110,99,105,97,108>> }     \* "experiencial"

default_templates ==
    << [title |-> <<66,105,101,110,118,101,110,105,100,97,32,121,32,97,99,108,105,109,97,116,97,99,105,243,110>>,  \* "Bienvenida y aclimatación"
        summary |-> "Recepcion personalizada, check-in express y recorrido de orientacion por el hotel.",
        morning |-> "Traslado privado y recepcion con amenities premium.",
        afternoon |-> "City tour introductorio con guia experto en espanol.",
        evening |-> "Cena de autor con maridaje disenado por el sommelier de la casa."],
       [title |-> <<67,117,108,116,117,114,97,32,121,32,112,97,116,114,105,109,111,110,105,111>>,  \* "Cultura y patrimonio"
        summary |-> "Acceso prioritario a museos iconicos y experiencias culturales privadas.",
        morning |-> "Visita guiada antes de la apertura al publico en el principal museo local.",
        afternoon |-> "Encuentro con artesanos para un taller exclusivo detras de bambalinas.",
        evening |-> "Coctel en rooftop con vistas panoramicas y musica en vivo."],
       [title |-> <<83,97,98,111,114,101,115,32,108,111,99,97,108,101,115>>,  \* "Sabores locales"
        summary |-> "Ruta gastronomica con maridajes y experiencias culinarias de autor.",
        morning |-> "Clase de cocina con chef reconocido para aprender recetas tradicionales.",
        afternoon |-> "Tour de mercados gourmet y degustacion de productos de temporada.",
        evening |-> "Reserva VIP en restaurante insignia con menu degustacion sorpresa."],
       [title |-> <<66,105,101,110,101,115,116,97,114,32,121,32,100,101,115,99,111,110,101,120,105,243,110>>,  \* "Bienestar y desconexión"
        summary |-> "Jornada enfocada en bienestar holistico con tratamientos de spa signature.",
        morning |-> "Sesion de yoga o meditacion guiada al amanecer.",
        afternoon |-> "Circuito de hidroterapia y masaje de autor en cabina privada.",
        evening |-> "Cena ligera de inspiracion healthy con mixologia botanica."] >>

AdventureTemplate ==
    [title |-> <<65,118,101,110,116,117,114,97,32,115,111,98,32,109,101,100,105,100,97>>,  \* "Aventura sob medida"
     summary |-> "Actividades outdoor con guias certificados y medidas de seguridad premium.",
     morning |-> "Exploracion privada por senderos exclusivos con picnic gourmet.",
     afternoon |-> "Actividad adrenalinica como vuelo en helicoptero o navegacion privada.",
     evening |-> "Fogata o cena tematica con storytelling local y mixologia artesanal."]

ArtTemplate ==
    [title |-> <<65,114,116,101,32,99,111,110,116,101,109,112,111,114,225,110,101,111,32,121,32,99,108,225,115,105,99,111>>,  \* "Arte contemporáneo y clásico"
     summary |-> "Visitas privadas a galerias con curadores y coleccionistas.",
     morning |-> "Recorrido con curador por galerias emergentes.",
     afternoon |-> "Acceso a coleccion privada con anfitrion experto.",
     evening |-> "Cena tematica rodeada de arte con menu inspirado en artistas locales."]

HistoryTemplate ==
    [title |-> <<72,105,115,116,111,114,105,97,32,118,105,118,97>>,  \* "Historia viva"
     summary |-> "Rutas exclusivas por sitios patrimoniales con guia especializado.",
     morning |-> "Visita privada a monumentos antes del horario publico.",
     afternoon |-> "Acceso a archivos historicos y encuentro con historiador local.",
     evening |-> "Cena en edificio historico con iluminacion especial y menu de epoca."]

\* _extract_keywords as the set it builds before sorting
keyword_tokens(extracted_text, destination) ==
    LET words == Split(extracted_text)
    IN  { Lower(words[i]) : i \in { j \in 1..Len(words) : Len(words[j]) > 3 } }
          \cup { Lower(destination) }

\* _extract_keywords
extract_keywords(extracted_text, destination) ==
    SortedStrs(keyword_tokens(extracted_text, destination))

\* mutant of ThemeTemplate: "aventura" takes the branch of "historia"
ThemeTemplate_swapped(theme) ==
    IF theme = kw_cultura THEN default_templates[2]
    ELSE IF theme = kw_gastronomia THEN default_templates[3]
    ELSE IF theme = kw_relax THEN default_templates[4]
    ELSE IF theme = kw_arte THEN ArtTemplate
    ELSE HistoryTemplate

\* the branch of the if/elif chain a theme takes
ThemeTemplate(theme) ==
    IF theme = kw_aventura THEN AdventureTemplate
    ELSE IF theme = kw_cultura THEN default_templates[2]
    ELSE IF theme = kw_gastronomia THEN default_templates[3]
    ELSE IF theme = kw_relax THEN default_templates[4]
    ELSE IF theme = kw_arte THEN ArtTemplate
    ELSE HistoryTemplate

\* mutant of AdventureSortKey: the title compared without regard to case
AdventureSortKey_caseless(item) == ~Contains(kw_aventura, Lower(item.title))

\* the sort key of line 197: "aventura" not in item["title"]
AdventureSortKey(item) == ~Contains(kw_aventura, item.title)

\* line 197: sorted(highlights, key=...) with a Boolean key is stable and
\* puts the items whose key is False before those whose key is True
sorted_by_key(highlights) ==
    SelectSeq(highlights, LAMBDA x : ~AdventureSortKey(x))
        \o SelectSeq(highlights, LAMBDA x : AdventureSortKey(x))

\* mutant of curate_highlights: the fallback to default_templates left out
curate_highlights_no_default(keywords, travel_style) ==
    LET themes == SelectSeq(keywords, LAMBDA k : k \in ThemeKeywords)
        highlights == [i \in 1..Len(themes) |-> ThemeTemplate(themes[i])]
    IN  IF Lower(travel_style) \in AdventureStyles
        THEN sorted_by_key(highlights)
        ELSE highlights

\* _curate_highlights
curate_highlights(keywords, travel_style) ==
    LET themes == SelectSeq(keywords, LAMBDA k : k \in ThemeKeywords)
        themed == [i \in 1..Len(themes) |-> ThemeTemplate(themes[i])]
        highlights == IF themed = <<>> THEN default_templates ELSE themed
    IN  IF Lower(travel_style) \in AdventureStyles
        THEN sorted_by_key(highlights)
        ELSE highlights

day_title_prefix == <<68,237,97,32>>   \* "Día "
day_title_sep    == <<32,45,32>>       \* " - "

\* mutant of day_entry: the index not reduced modulo the number of
\* highlights, the last highlight kept once they run out
day_entry_no_cycle(request, curated_highlights, offset) ==
    LET current_date == PlusDays(request.start_date, offset)
        highlight == curated_highlights[Min(offset, Len(curated_highlights) - 1) + 1]
    IN  [date |-> FormatDay(current_date),
         title |-> day_title_prefix \o Str(offset + 1) \o day_title_sep \o highlight.title,
         summary |-> highlight.summary,
         morning |-> highlight.morning,
         afternoon |-> highlight.afternoon,
         evening |-> highlight.evening]

\* one iteration of the loop of _build_daily_schedule, offset from 0
day_entry(request, curated_highlights, offset) ==
    LET current_date == PlusDays(request.start_date, offset)
        highlight == curated_highlights[(offset % Len(curated_highlights)) + 1]
    IN  [date |-> FormatDay(current_date),
         title |-> day_title_prefix \o Str(offset + 1) \o day_title_sep \o highlight.title,
         summary |-> highlight.summary,
         morning |-> highlight.morning,
         afternoon |-> highlight.afternoon,
         evening |-> highlight.evening]

\* _build_daily_schedule; with no highlight the placeholder is a str and
\* indexing it with 'title' raises TypeError
build_daily_schedule(request, extracted_text) ==
    LET keywords == extract_keywords(extracted_text, request.destination)
        curated_highlights == curate_highlights(keywords, request.travel_style)
        total_days == DaysBetween(request.end_date, request.start_date) + 1
    IN  IF total_days >= 1 /\ curated_highlights = <<>>
        THEN [raised |-> TRUE, schedule |-> <<>>]
        ELSE [raised |-> FALSE,
              schedule |-> [k \in 1..total_days |->
                               day_entry(request, curated_highlights, k - 1)]]

rec_family    == <<82,101,115,101,114,118,97,114,32,97,99,116,105,118,105,100,97,100,101,115,32,99,111,110,32,103,117,237,97,32,112,114,105,118,97,100,111,32,101,110,102,111,99,97,100,111,32,101,110,32,102,97,109,105,108,105,97,115,32,112,97,114,97,32,109,97,120,105,109,105,122,97,114,32,115,101,103,117,114,105,100,97,100,32,121,32,97,112,114,101,110,100,105,122,97,106,101,46>>
rec_business  == <<73,110,99,108,117,105,114,32,116,105,101,109,112,111,115,32,100,101,32,116,114,97,115,108,97,100,111,32,102,108,101,120,105,98,108,101,115,32,121,32,115,97,108,97,115,32,100,101,32,114,101,117,110,105,111,110,101,115,32,101,110,32,99,97,100,97,32,104,111,116,101,108,32,115,101,108,101,99,99,105,111,110,97,100,111,46>>
rec_culinary  == <<67,111,111,114,100,105,110,97,114,32,101,120,112,101,114,105,101,110,99,105,97,115,32,99,117,108,105,110,97,114,105,97,115,32,99,111,110,32,99,104,101,102,115,32,108,111,99,97,108,101,115,32,121,32,114,101,115,101,114,118,97,115,32,97,110,116,105,99,105,112,97,100,97,115,32,101,110,32,114,101,115,116,97,117,114,97,110,116,101,115,32,105,99,243,110,105,99,111,115,46>>
rec_spa       == <<65,241,97,100,105,114,32,116,114,97,116,97,109,105,101,110,116,111,115,32,100,101,32,115,112,97,32,111,32,114,105,116,117,97,108,101,115,32,100,101,32,98,105,101,110,101,115,116,97,114,32,101,120,99,108,117,115,105,118,111,115,32,101,110,32,108,111,115,32,104,111,116,101,108,101,115,32,98,111,117,116,105,113,117,101,32,115,101,108,101,99,99,105,111,110,97,100,111,115,46>>
rec_special_prefix == <<67,111,110,115,105,100,101,114,97,114,32,112,101,116,105,99,105,111,110,101,115,32,101,115,112,101,99,105,97,108,101,115,58,32>>
rec_special_suffix == <<46>>
rec_default_gastronomy == <<80,114,111,103,114,97,109,97,114,32,117,110,97,32,99,101,110,97,32,100,101,32,98,105,101,110,118,101,110,105,100,97,32,99,111,110,32,100,101,103,117,115,116,97,99,105,243,110,32,114,101,103,105,111,110,97,108,32,121,32,109,97,114,105,100,97,106,101,32,100,101,32,118,105,110,111,115,32,108,111,99,97,108,101,115,46>>
rec_default_logistics  == <<71,101,115,116,105,111,110,97,114,32,116,114,97,115,108,97,100,111,115,32,112,114,105,118,97,100,111,115,32,112,117,101,114,116,97,32,97,32,112,117,101,114,116,97,32,99,111,110,32,97,115,105,115,116,101,110,99,105,97,32,109,117,108,116,105,108,105,110,103,252,101,46>>
rec_default_wellness   == <<66,108,111,113,117,101,97,114,32,101,115,112,97,99,105,111,115,32,100,101,32,116,105,101,109,112,111,32,112,97,114,97,32,97,99,116,105,118,105,100,97,100,101,115,32,114,101,103,101,110,101,114,97,116,105,118,97,115,32,99,111,109,111,32,121,111,103,97,32,97,108,32,97,109,97,110,101,99,101,114,32,111,32,109,97,115,97,106,101,115,32,115,105,103,110,97,116,117,114,101,46>>
rec_default_insider    == <<79,102,114,101,99,101,114,32,117,110,32,99,111,110,99,105,101,114,103,101,32,50,52,47,55,32,112,97,114,97,32,97,106,117,115,116,101,115,32,100,101,32,250,108,116,105,109,111,32,109,105,110,117,116,111,32,121,32,97,99,99,101,115,111,32,97,32,101,120,112,101,114,105,101,110,99,105,97,115,32,101,120,99,108,117,115,105,118,97,115,46>>

InSeq(x, seq) == \E i \in 1..Len(seq) : seq[i] = x

\* line 95: "gastronom" in "".join(keywords)
gastronomy_rule(keywords) == Contains(kw_gastronom, JoinEmpty(keywords))

\* mutant of default_fill: the default-fill phase left out
default_fill_skipped(items, default) == items

\* lines 102-109: a category still empty gets its default
default_fill(items, default) == IF items = <<>> THEN <<default>> ELSE items

\* _build_recommendations
build_recommendations(request, extracted_text) ==
    LET keywords == extract_keywords(extracted_text, request.destination)
        insider1 == IF InSeq(kw_family, keywords) \/ InSeq(kw_familia, keywords)
                    THEN <<rec_family>> ELSE <<>>
        logistics == IF InSeq(kw_negocio, keywords) \/ InSeq(kw_corporativo, keywords)
                     THEN <<rec_business>> ELSE <<>>
        gastronomy == IF gastronomy_rule(keywords) THEN <<rec_culinary>> ELSE <<>>
        wellness == IF Lower(request.travel_style) \in LuxuryStyles
                    THEN <<rec_spa>> ELSE <<>>
        insider == IF request.special_requests # <<>>
                   THEN Append(insider1, rec_special_prefix \o request.special_requests
                                         \o rec_special_suffix)
                   ELSE insider1
    IN  [gastronomy |-> default_fill(gastronomy, rec_default_gastronomy),
         logistics |-> default_fill(logistics, rec_default_logistics),
         wellness |-> default_fill(wellness, rec_default_wellness),
         insider |-> default_fill(insider, rec_default_insider)]

\* mutant of nights: the inclusive + 1 forgotten
nights_exclusive(request) == DaysBetween(request.end_date, request.start_date)

\* the 'nights' entry of build, line 48
nights(request) == DaysBetween(request.end_date, request.start_date) + 1

\* ItineraryBuilder.build; attachments are AttachmentSummary records, whose
\* to_dict has the same three fields
build(request, extracted_text, attachments) ==
    LET days == build_daily_schedule(request, extracted_text)
    IN  IF days.raised THEN [raised |-> TRUE, itinerary |-> NoPlan]
        ELSE [raised |-> FALSE,
              itinerary |->
                [client |-> [name |-> request.client_name,
                             style |-> request.travel_style,
                             special_requests |-> request.special_requests],
                 trip |-> [destination |-> request.destination,
                           start_date |-> FormatLong(request.start_date),
                           end_date |-> FormatLong(request.end_date),
                           nights |-> nights(request)],
                 days |-> days.schedule,
                 recommendations |-> build_recommendations(request, extracted_text),
                 attachments |-> attachments]]

(***************************************************************************)
(* SpecBuild: ItineraryBuilder.build on its own, over bounded inputs       *)
(***************************************************************************)

MaxTokens == 2
MaxTripDays == 5

Vocabulary ==
    { <<97,118,101,110,116,117,114,97>>,                  \* "aventura"
      <<65,118,101,110,116,117,114,97>>,                  \* "Aventura"
      <<65,114,116,101>>,                                 \* "Arte"
      <<99,117,108,116,117,114,97>>,                      \* "cultura"
      <<103,97,115,116,114,111,110,111,109,237,97>>,      \* "gastronomía"
      <<114,101,108,97,120>>,                             \* "relax"
      <<104,105,115,116,111,114,105,97>>,                 \* "historia"
      <<103,97,115,116,114,111>>,                         \* "gastro"
      <<110,111,109,105,97>>,                             \* "nomia"
      <<102,97,109,105,108,105,97>>,                      \* "familia"
      <<110,101,103,111,99,105,111>>,                     \* "negocio"
      <<115,111,108>> }                                   \* "sol"

Reverse(seq) == [i \in 1..Len(seq) |-> seq[Len(seq) + 1 - i]]

RECURSIVE JoinSpace(_)
JoinSpace(ss) ==
    IF ss = <<>> THEN <<>>
    ELSE IF Len(ss) = 1 THEN ss[1]
    ELSE ss[1] \o <<32>> \o JoinSpace(Tail(ss))

\* the texts tried: up to MaxTokens distinct words, written in descending order
Texts ==
    { JoinSpace(Reverse(SortedStrs(S))) :
        S \in { T \in SUBSET Vocabulary : Cardinality(T) <= MaxTokens } }

Destinations ==
    { <<82,111,109,97>>,                       \* "Roma"
      <<65,118,101,110,116,117,114,97>>,       \* "Aventura"
      <<82,101,108,97,120>> }                  \* "Relax"

Styles ==
    { <<80,114,101,109,105,117,109>>,          \* "Premium"
      <<65,86,69,78,84,85,82,65>>,             \* "AVENTURA"
      <<69,120,112,101,114,105,101,110,99,105,97,108>> }   \* "Experiencial"

SpecialRequests ==
    { <<>>,
      <<99,111,110,32,110,105,241,111,115>> }  \* "con niños"

StartDates == { Date(2024, 2, 27), Date(2023, 12, 29) }

\* end - start in days: a one-day trip, two days, and the longest tried
TripLengths == {0, 1, MaxTripDays}

Requests ==
    { [client_name |-> <<65,110,97,32,82,117,105,122>>,   \* "Ana Ruiz"
       start_date |-> s, end_date |-> PlusDays(s, n),
       destination |-> d, travel_style |-> st, special_requests |-> sp] :
        s \in StartDates, n \in TripLengths, d \in Destinations,
        st \in Styles, sp \in SpecialRequests }

HandlersIdle ==
    /\ pdf_reader = TRUE
    /\ store = <<>>
    /\ req = <<>>
    /\ issued = <<>>
    /\ log = {}
    /\ served = 0

ExtractIdle ==
    /\ x_files = <<>>
    /\ x_idx = 0
    /\ x_fragments = <<>>
    /\ x_summaries = <<>>
    /\ x_pc = "idle"
    /\ x_result = None

BuildIdle ==
    /\ b_request = None
    /\ b_text = <<>>
    /\ b_pc = "idle"
    /\ b_highlights = <<>>
    /\ b_result = None

BuildInit ==
    /\ b_request \in Requests
    /\ b_text \in Texts
    /\ b_pc = "call"
    /\ b_highlights = <<>>
    /\ b_result = None
    /\ ExtractIdle
    /\ HandlersIdle

\* builder.build(itinerary_request, extracted_text, attachment_summaries)
BuildCall ==
    /\ b_pc = "call"
    /\ b_highlights' = curate_highlights(
                           extract_keywords(b_text, b_request.destination),
                           b_request.travel_style)
    /\ b_result' = build(b_request, b_text, <<>>)
    /\ b_pc' = "done"
    /\ UNCHANGED <<b_request, b_text, pdf_reader>>
    /\ UNCHANGED xvars
    /\ UNCHANGED hvars

BuildNext == BuildCall

SpecBuild == BuildInit /\ [][BuildNext]_vars

(***************************************************************************)
(* Properties of ItineraryBuilder.build (checked under SpecBuild)          *)
(***************************************************************************)

BuildDone == b_pc = "done"

BuiltPlan == b_result.itinerary

\* the date n days after d by calendar arithmetic, for n of at most 28 days
DateAfter(d, n) ==
    LET last == DaysInMonth(d.year, d.month)
    IN  IF d.day + n <= last THEN Date(d.year, d.month, d.day + n)
        ELSE IF d.month < 12 THEN Date(d.year, d.month + 1, d.day + n - last)
        ELSE Date(d.year + 1, 1, d.day + n - last)

\* C1: for a request with start <= end, build returns a plan with exactly
\* (end - start).days + 1 day entries, the k-th one labelled with the k-th
\* calendar day from start (so ascending, ending at end), and 'nights' is
\* that same number.
C1_DayCount ==
    (BuildDone /\ Ordinal(b_request.start_date) <= Ordinal(b_request.end_date)) =>
        LET n == Ordinal(b_request.end_date) - Ordinal(b_request.start_date) + 1
        IN  /\ ~b_result.raised
            /\ Len(BuiltPlan.days) = n
            /\ BuiltPlan.trip.nights = n
            /\ \A k \in 1..n :
                 BuiltPlan.days[k].date
                   = FormatDay(DateAfter(b_request.start_date, k - 1))
            /\ DateAfter(b_request.start_date, n - 1) = b_request.end_date

C1_Witness ==
    /\ BuildDone
    /\ ~b_result.raised
    /\ Len(BuiltPlan.days) >= 4
    /\ b_request.start_date.month # b_request.end_date.month

title_Aventura == <<65,118,101,110,116,117,114,97>>   \* "Aventura"

IsAdventureTitled(h) == Contains(title_Aventura, h.title)

\* C2: with travel style "aventura" or "experiencial" (case-insensitive),
\* every highlight whose title contains "Aventura" comes before every
\* highlight whose title does not.
C2_AdventureFirst ==
    (BuildDone /\ Lower(b_request.travel_style) \in AdventureStyles) =>
        \A i, j \in 1..Len(b_highlights) :
            (IsAdventureTitled(b_highlights[i]) /\ ~IsAdventureTitled(b_highlights[j]))
                => i < j

\* C3: every plan build returns has a non-empty list in each of the four
\* recommendation categories.
C3_CategoriesNonEmpty ==
    (BuildDone /\ ~b_result.raised) =>
        /\ BuiltPlan.recommendations.gastronomy # <<>>
        /\ BuiltPlan.recommendations.logistics # <<>>
        /\ BuiltPlan.recommendations.wellness # <<>>
        /\ BuiltPlan.recommendations.insider # <<>>

\* a plan in which no conditional rule fired: all four lists are the defaults
C3_Witness ==
    /\ BuildDone
    /\ ~b_result.raised
    /\ BuiltPlan.recommendations.gastronomy = <<rec_default_gastronomy>>
    /\ BuiltPlan.recommendations.logistics = <<rec_default_logistics>>
    /\ BuiltPlan.recommendations.wellness = <<rec_default_wellness>>
    /\ BuiltPlan.recommendations.insider = <<rec_default_insider>>

\* the theme keywords among the tokens of the text (longer than 3, lower-cased)
TextThemes(text) ==
    LET words == Split(text)
    IN  { k \in ThemeKeywords :
            \E i \in 1..Len(words) : Len(words[i]) > 3 /\ Lower(words[i]) = k }

EveryDayIsAdventure ==
    /\ b_highlights = <<AdventureTemplate>>
    /\ ~b_result.raised
    /\ \A k \in 1..Len(BuiltPlan.days) :
         /\ BuiltPlan.days[k].title
              = day_title_prefix \o Str(k) \o day_title_sep \o AdventureTemplate.title
         /\ BuiltPlan.days[k].summary = AdventureTemplate.summary
         /\ BuiltPlan.days[k].morning = AdventureTemplate.morning
         /\ BuiltPlan.days[k].afternoon = AdventureTemplate.afternoon
         /\ BuiltPlan.days[k].evening = AdventureTemplate.evening

\* C7 as stated: the text has the keyword "aventura" and no other theme
\* keyword; then, whatever the destination and style, the selection is the
\* adventure template alone and every day entry carries it.
C7_AsStated ==
    (BuildDone /\ TextThemes(b_text) = {kw_aventura}) => EveryDayIsAdventure

\* C7 amended: the same, provided the lower-cased destination (which the
\* builder adds to the keywords) is not itself another theme keyword.
C7_OnlyAdventure ==
    (/\ BuildDone
     /\ TextThemes(b_text) = {kw_aventura}
     /\ Lower(b_request.destination) \notin (ThemeKeywords \ {kw_aventura}))
        => EveryDayIsAdventure

C7_Witness ==
    /\ BuildDone
    /\ TextThemes(b_text) = {kw_aventura}
    /\ Lower(b_request.destination) \notin ThemeKeywords
    /\ ~b_result.raised
    /\ Len(BuiltPlan.days) >= 3
    /\ BuiltPlan.days[3].summary = AdventureTemplate.summary

\* C8: the culinary suggestion is in gastronomy iff some single keyword
\* contains "gastronom"; otherwise gastronomy is the welcome-dinner default
\* alone.
C8_CulinaryIffOneKeyword ==
    (BuildDone /\ ~b_result.raised) =>
        LET one == \E k \in keyword_tokens(b_text, b_request.destination) :
                       Contains(kw_gastronom, k)
        IN  /\ InSeq(rec_culinary, BuiltPlan.recommendations.gastronomy) <=> one
            /\ ~one => BuiltPlan.recommendations.gastronomy = <<rec_default_gastronomy>>

\* the theme keyword a template stands for (0 for the welcome template)
ThemeOf(h) ==
    IF h = AdventureTemplate THEN kw_aventura
    ELSE IF h = ArtTemplate THEN kw_arte
    ELSE IF h = HistoryTemplate THEN kw_historia
    ELSE IF h = default_templates[2] THEN kw_cultura
    ELSE IF h = default_templates[3] THEN kw_gastronomia
    ELSE IF h = default_templates[4] THEN kw_relax
    ELSE <<>>

PresentThemes ==
    ThemeKeywords \cap keyword_tokens(b_text, b_request.destination)

\* C10: with theme keywords present, the selection holds one template per
\* present theme keyword, ordered as the keywords are in the sorted keyword
\* list, without duplicates; with none present it is the four defaults in
\* their order.
C10_SelectionFollowsScan ==
    BuildDone =>
        IF PresentThemes = {}
        THEN b_highlights = default_templates
        ELSE /\ Len(b_highlights) = Cardinality(PresentThemes)
             /\ { ThemeOf(b_highlights[i]) : i \in 1..Len(b_highlights) } = PresentThemes
             /\ \A i, j \in 1..Len(b_highlights) :
                  i < j => StrLess(ThemeOf(b_highlights[i]), ThemeOf(b_highlights[j]))

\* three themes selected for an adventure-style request, "aventura" not first
C10_Witness ==
    /\ BuildDone
    /\ Lower(b_request.travel_style) \in AdventureStyles
    /\ Len(b_highlights) = 3
    /\ b_highlights[2] = AdventureTemplate

(***************************************************************************)
(* SpecExtract: TextExtractor.extract, one attachment per step             *)
(***************************************************************************)

MaxFiles == 2

NoPdf == [opens |-> FALSE, pages |-> <<>>, exc |-> <<>>, left_at |-> 0]

\* a long exception text: 300 times "x"
LongMessage == [i \in 1..300 |-> 120]

ShortMessage == <<69,79,70,32,109,97,114,107,101,114,32,110,111,116,32,102,111,117,110,100>>  \* "EOF marker not found"

FileKinds ==
    { \* a text file: "viaje en familia"
      [filename |-> "notas.txt", mimetype |-> "text/plain",
       bytes |-> <<118,105,97,106,101,32,101,110,32,102,97,109,105,108,105,97>>,
       pos |-> 0, pdf |-> NoPdf],
      \* a text file with an undecodable byte: "gastronom" C3 AD "a" FF
      [filename |-> "menu.txt", mimetype |-> "text/plain",
       bytes |-> <<103,97,115,116,114,111,110,111,109,195,173,97,255>>,
       pos |-> 0, pdf |-> NoPdf],
      \* a PDF of three pages, the second without text
      [filename |-> "plan.pdf", mimetype |-> "application/pdf",
       bytes |-> <<37,80,68,70>>, pos |-> 0,
       pdf |-> [opens |-> TRUE,
                pages |-> << <<97,118,101,110,116,117,114,97>>, PageEmpty,
                             <<97,114,116,101>> >>,
                exc |-> <<>>, left_at |-> 4]],
      \* a PDF that PdfReader rejects, with a long message
      [filename |-> "roto.pdf", mimetype |-> "application/pdf",
       bytes |-> <<37,80,68>>, pos |-> 0,
       pdf |-> [opens |-> FALSE, pages |-> <<>>, exc |-> LongMessage, left_at |-> 3]],
      \* a PDF whose second page raises
      [filename |-> "medio.pdf", mimetype |-> "application/pdf",
       bytes |-> <<37,80,68,70,45>>, pos |-> 0,
       pdf |-> [opens |-> TRUE,
                pages |-> << <<114,101,108,97,120>>, PageRaises,
                             <<99,117,108,116,117,114,97>> >>,
                exc |-> ShortMessage, left_at |-> 2]],
      \* an unsupported type
      [filename |-> "foto.png", mimetype |-> "image/png",
       bytes |-> <<137,80,78,71>>, pos |-> 0, pdf |-> NoPdf],
      \* neither a name nor a declared type
      [filename |-> "", mimetype |-> "",
       bytes |-> <<0,1>>, pos |-> 0, pdf |-> NoPdf] }

RECURSIVE SeqsUpTo(_, _)
SeqsUpTo(S, n) ==
    IF n = 0 THEN { <<>> }
    ELSE LET shorter == SeqsUpTo(S, n - 1)
         IN  shorter \cup { Append(q, x) : q \in shorter, x \in S }

ExtractInit ==
    /\ x_files \in SeqsUpTo(FileKinds, MaxFiles)
    /\ pdf_reader \in BOOLEAN
    /\ x_idx = 1
    /\ x_fragments = <<>>
    /\ x_summaries = <<>>
    /\ x_pc = "loop"
    /\ x_result = None
    /\ BuildIdle
    /\ store = <<>>
    /\ req = <<>>
    /\ issued = <<>>
    /\ log = {}
    /\ served = 0

\* one iteration of the for loop of extract
ExtractStep ==
    /\ x_pc = "loop"
    /\ x_idx <= Len(x_files)
    /\ LET r == extract_one(x_files[x_idx], x_fragments, pdf_reader)
       IN  /\ x_files' = [x_files EXCEPT ![x_idx] = r.att]
           /\ IF r.raised
              THEN /\ x_pc' = "raised"
                   /\ UNCHANGED <<x_idx, x_fragments, x_summaries>>
              ELSE /\ x_pc' = "loop"
                   /\ x_idx' = x_idx + 1
                   /\ x_fragments' = r.fragments
                   /\ x_summaries' = Append(x_summaries, r.summary)
    /\ UNCHANGED <<x_result, pdf_reader>>
    /\ UNCHANGED bvars
    /\ UNCHANGED hvars

\* line 57: return "\n".join(text_fragments), summaries
ExtractReturn ==
    /\ x_pc = "loop"
    /\ x_idx > Len(x_files)
    /\ x_result' = [text |-> JoinNewline(x_fragments), summaries |-> x_summaries]
    /\ x_pc' = "done"
    /\ UNCHANGED <<x_files, x_idx, x_fragments, x_summaries, pdf_reader>>
    /\ UNCHANGED bvars
    /\ UNCHANGED hvars

ExtractNext == ExtractStep \/ ExtractReturn

SpecExtract == ExtractInit /\ [][ExtractNext]_vars

(***************************************************************************)
(* Properties of TextExtractor.extract (checked under SpecExtract)         *)
(***************************************************************************)

IsPdf(att) == att.mimetype = "application/pdf"

\* the note a file is due, and the text it contributes, each from that
\* file alone
DueNote(att) ==
    IF att.mimetype = "text/plain" THEN note_text_ok
    ELSE IF IsPdf(att) /\ pdf_reader
         THEN (IF PdfFails(att)
               THEN SubSeq(note_pdf_failed \o att.pdf.exc, 1,
                           Min(200, Len(note_pdf_failed) + Len(att.pdf.exc)))
               ELSE note_pdf_ok)
    ELSE note_unsupported

DueFragments(att) ==
    IF att.mimetype = "text/plain" THEN <<DecodeUtf8(att.bytes)>>
    ELSE IF IsPdf(att) /\ pdf_reader /\ att.pdf.opens THEN PagesRead(att.pdf.pages)
    ELSE <<>>

RECURSIVE AllDueFragments(_)
AllDueFragments(files) ==
    IF files = <<>> THEN <<>>
    ELSE DueFragments(files[1]) \o AllDueFragments(Tail(files))

text_noches == <<32,110,111,99,104,101,115>>   \* " noches"
text_na == <<78,47,65>>                        \* "N/A"

\* PdfRenderer.render: the story it builds, section by section; the plan is
\* only read
render(itinerary) ==
    [header |->
        [client |-> itinerary.client.name,
         style |-> itinerary.client.style,
         destination |-> itinerary.trip.destination,
         duration |-> Str(itinerary.trip.nights) \o text_noches,
         dates |-> itinerary.trip.start_date \o day_title_sep \o itinerary.trip.end_date,
         requests |-> IF itinerary.client.special_requests # <<>>
                      THEN itinerary.client.special_requests ELSE text_na],
     days |-> itinerary.days,
     recommendations |->
        << <<"Gastronomy", itinerary.recommendations.gastronomy>>,
           <<"Logistics", itinerary.recommendations.logistics>>,
           <<"Wellness", itinerary.recommendations.wellness>>,
           <<"Insider", itinerary.recommendations.insider>> >>,
     attachments |-> IF itinerary.attachments = <<>> THEN <<>>
                     ELSE itinerary.attachments]

file_prefix == <<105,116,105,110,101,114,97,114,105,111,95>>   \* "itinerario_"
file_suffix == <<46,112,100,102>>                              \* ".pdf"

\* line 90: the download name
download_name(itinerary) ==
    file_prefix \o Lower(ReplaceSpace(itinerary.client.name)) \o file_suffix

default_client_name == <<67,108,105,101,110,116,101>>   \* "Cliente"
default_destination == <<68,101,115,116,105,110,111,32,112,114,105,110,99,105,112,97,108>>   \* "Destino principal"
default_travel_style == <<80,114,101,109,105,117,109>>   \* "Premium"

flash_bad_dates == "Las fechas proporcionadas no son validas. Usa el formato AAAA-MM-DD."
flash_end_before_start == "La fecha de fin debe ser posterior a la fecha de inicio."
flash_not_found == "No se encontro el itinerario solicitado."

\* form.get(key, default); the form is a function from the fields sent
FormGet(form, key, default) == IF key \in DOMAIN form THEN form[key] ELSE default

\* lines 38-43: both dates parsed, KeyError and ValueError caught together
dates_valid(form) ==
    /\ "start_date" \in DOMAIN form
    /\ parse_date(form["start_date"]).ok
    /\ "end_date" \in DOMAIN form
    /\ parse_date(form["end_date"]).ok

\* mutant of end_before_start: a trip of one day rejected too
end_not_after_start(start_date, end_date) == Ordinal(end_date) <= Ordinal(start_date)

\* line 45: end_date < start_date
end_before_start(start_date, end_date) == Ordinal(end_date) < Ordinal(start_date)

\* line 55: the uploads that are kept
kept_attachments(uploaded_files) == SelectSeq(uploaded_files, LAMBDA f : f.filename # "")

\* lines 49-70 for a form whose dates passed: extractor, then builder
generate_plan(form, uploaded_files, reader) ==
    LET extracted == extract(kept_attachments(uploaded_files), reader)
        itinerary_request ==
            [client_name |-> FormGet(form, "client_name", default_client_name),
             start_date |-> parse_date(form["start_date"]).date,
             end_date |-> parse_date(form["end_date"]).date,
             destination |-> FormGet(form, "primary_destination", default_destination),
             travel_style |-> FormGet(form, "travel_style", default_travel_style),
             special_requests |-> FormGet(form, "special_requests", <<>>)]
    IN  IF extracted.raised THEN [raised |-> TRUE, itinerary |-> NoPlan]
        ELSE build(itinerary_request, extracted.text, extracted.summaries)

\* mutant of store_put: the dict rebound to the new entry alone
store_put_rebind(d, itinerary_id, itinerary) == (itinerary_id :> itinerary)

\* line 73: _GENERATED_ITINERARIES[itinerary_id] = itinerary
store_put(d, itinerary_id, itinerary) == (itinerary_id :> itinerary) @@ d

\* mutant of store_get: the lookup misses every key
store_get_miss(d, itinerary_id) == NoPlan

\* line 81: _GENERATED_ITINERARIES.get(itinerary_id)
store_get(d, itinerary_id) ==
    IF itinerary_id \in DOMAIN d THEN d[itinerary_id] ELSE NoPlan

MaxRequests == 3
NumWorkers == 2

Workers == 1..NumWorkers

\* what uuid4().hex can return: one identifier per request that may be served
Ids == { <<"uuid", n>> : n \in 1..MaxRequests }

\* identifiers a client may invent; uuid4 never returns them
UnknownIds == { <<"unknown", 0>> }

\* uuid.uuid4().hex: an identifier not drawn before
uuid4(d) == Ids \ DOMAIN d

Idle == [kind |-> "idle", pc |-> "idle", itinerary |-> NoPlan, id |-> NoId]

date_a == <<50,48,50,52,45,48,50,45,50,56>>   \* "2024-02-28"
date_b == <<50,48,50,52,45,48,51,45,48,49>>   \* "2024-03-01"
date_b_short == <<50,48,50,52,45,51,45,49>>   \* "2024-3-1"
date_bad_day == <<50,48,50,52,45,48,50,45,51,48>>   \* "2024-02-30"
date_bad_format == <<48,49,47,48,51,47,50,48,50,52>>   \* "01/03/2024"

\* the POST /generate requests tried: the form and the uploaded files
GenerateRequests ==
    { \* three days, every field, a text file, an empty upload and a broken PDF
      [form |-> [start_date |-> date_a, end_date |-> date_b,
                 client_name |-> <<65,110,97,32,82,117,105,122>>,       \* "Ana Ruiz"
                 primary_destination |-> <<82,111,109,97>>,             \* "Roma"
                 travel_style |-> <<65,118,101,110,116,117,114,97>>,    \* "Aventura"
                 special_requests |-> <<99,111,110,32,110,105,241,111,115>>],   \* "con niños"
       files |-> << [filename |-> "notas.txt", mimetype |-> "text/plain",
                     bytes |-> <<97,118,101,110,116,117,114,97,32,65,114,116,101>>,   \* "aventura Arte"
                     pos |-> 0, pdf |-> NoPdf],
                    [filename |-> "", mimetype |-> "application/octet-stream",
                     bytes |-> <<>>, pos |-> 0, pdf |-> NoPdf],
                    [filename |-> "roto.pdf", mimetype |-> "application/pdf",
                     bytes |-> <<37,80,68>>, pos |-> 0,
                     pdf |-> [opens |-> FALSE, pages |-> <<>>, exc |-> ShortMessage,
                              left_at |-> 3]] >>],
      \* one day, only the dates sent, the start date without zero padding
      [form |-> [start_date |-> date_b_short, end_date |-> date_b], files |-> <<>>],
      \* end before start
      [form |-> [start_date |-> date_b, end_date |-> date_a], files |-> <<>>],
      \* no end date
      [form |-> [start_date |-> date_a], files |-> <<>>],
      \* a start date in another format
      [form |-> [start_date |-> date_bad_format, end_date |-> date_b], files |-> <<>>],
      \* an end date that is no calendar day
      [form |-> [start_date |-> date_a, end_date |-> date_bad_day], files |-> <<>>] }

Init ==
    /\ pdf_reader \in BOOLEAN
    /\ store = <<>>
    /\ req = [w \in Workers |-> Idle]
    /\ issued = <<>>
    /\ log = {}
    /\ served = 0
    /\ BuildIdle
    /\ ExtractIdle

Finish(w, entry) ==
    /\ req' = [req EXCEPT ![w] = Idle]
    /\ log' = log \cup {entry}

\* generate_itinerary, lines 36-70: validation, then extractor and builder
GenerateBegin(w) ==
    /\ req[w].kind = "idle"
    /\ served < MaxRequests
    /\ served' = served + 1
    /\ \E g \in GenerateRequests :
         IF ~dates_valid(g.form)
         THEN Finish(w, [kind |-> "generate", request |-> g, outcome |-> "redirect",
                         flash |-> flash_bad_dates, extractor_ran |-> FALSE,
                         builder_ran |-> FALSE, id |-> NoId, itinerary |-> NoPlan])
         ELSE IF end_before_start(parse_date(g.form["start_date"]).date,
                                  parse_date(g.form["end_date"]).date)
         THEN Finish(w, [kind |-> "generate", request |-> g, outcome |-> "redirect",
                         flash |-> flash_end_before_start, extractor_ran |-> FALSE,
                         builder_ran |-> FALSE, id |-> NoId, itinerary |-> NoPlan])
         ELSE LET built == generate_plan(g.form, g.files, pdf_reader)
              IN  IF built.raised
                  THEN Finish(w, [kind |-> "generate", request |-> g, outcome |-> "500",
                                  flash |-> None, extractor_ran |-> TRUE,
                                  builder_ran |-> TRUE, id |-> NoId, itinerary |-> NoPlan])
                  ELSE /\ req' = [req EXCEPT ![w] =
                                    [kind |-> "generate", pc |-> "store",
                                     itinerary |-> built.itinerary, id |-> NoId,
                                     request |-> g]]
                       /\ UNCHANGED log
    /\ UNCHANGED <<store, issued, pdf_reader>>
    /\ UNCHANGED bvars
    /\ UNCHANGED xvars

\* generate_itinerary, lines 72-73: a new identifier, the plan stored under it
GenerateStore(w) ==
    /\ req[w].kind = "generate"
    /\ req[w].pc = "store"
    /\ \E itinerary_id \in uuid4(store) :
         /\ store' = store_put(store, itinerary_id, req[w].itinerary)
         /\ req' = [req EXCEPT ![w].pc = "respond", ![w].id = itinerary_id]
    /\ UNCHANGED <<issued, log, served, pdf_reader>>
    /\ UNCHANGED bvars
    /\ UNCHANGED xvars

\* generate_itinerary, line 75: the page with the plan and its identifier
GenerateRespond(w) ==
    /\ req[w].kind = "generate"
    /\ req[w].pc = "respond"
    /\ issued' = (req[w].id :> req[w].itinerary) @@ issued
    /\ Finish(w, [kind |-> "generate", request |-> req[w].request, outcome |-> "page",
                  flash |-> None, extractor_ran |-> TRUE, builder_ran |-> TRUE,
                  id |-> req[w].id, itinerary |-> req[w].itinerary])
    /\ UNCHANGED <<store, served, pdf_reader>>
    /\ UNCHANGED bvars
    /\ UNCHANGED xvars

\* download_itinerary_pdf, lines 81-84: the lookup and the 'not found' path;
\* a client asks for an identifier it was given or for one it invented
DownloadLookup(w) ==
    /\ req[w].kind = "idle"
    /\ served < MaxRequests
    /\ served' = served + 1
    /\ \E itinerary_id \in (DOMAIN issued) \cup UnknownIds :
         LET itinerary == store_get(store, itinerary_id)
         IN  IF itinerary = NoPlan
             THEN Finish(w, [kind |-> "download", id |-> itinerary_id,
                             outcome |-> "redirect", flash |-> flash_not_found,
                             rendered |-> NoPlan, document |-> NoPlan,
                             download_name |-> <<>>])
             ELSE /\ req' = [req EXCEPT ![w] =
                               [kind |-> "download", pc |-> "render",
                                itinerary |-> itinerary, id |-> itinerary_id]]
                  /\ UNCHANGED log
    /\ UNCHANGED <<store, issued, pdf_reader>>
    /\ UNCHANGED bvars
    /\ UNCHANGED xvars

\* download_itinerary_pdf, lines 86-97: the renderer and the file sent
DownloadRender(w) ==
    /\ req[w].kind = "download"
    /\ req[w].pc = "render"
    /\ Finish(w, [kind |-> "download", id |-> req[w].id, outcome |-> "file",
                  flash |-> None, rendered |-> req[w].itinerary,
                  document |-> render(req[w].itinerary),
                  download_name |-> download_name(req[w].itinerary)])
    /\ UNCHANGED <<store, issued, served, pdf_reader>>
    /\ UNCHANGED bvars
    /\ UNCHANGED xvars

Next ==
    \E w \in Workers :
        \/ GenerateBegin(w)
        \/ GenerateStore(w)
        \/ GenerateRespond(w)
        \/ DownloadLookup(w)
        \/ DownloadRender(w)

Spec == Init /\ [][Next]_vars

(***************************************************************************)
(* Properties of the request handlers (checked under Spec)                 *)
(***************************************************************************)

Downloads == { e \in log : e.kind = "download" }
Generates == { e \in log : e.kind = "generate" }

\* C4: a download for an identifier that generate returned is served the
\* plan that generate built, field for field, and that plan is what the
\* renderer is given; a download for an identifier no generate returned is
\* redirected with the 'not found' message and the renderer is not called.
C4_RoundTrip ==
    \A e \in Downloads :
        IF e.id \in DOMAIN issued
        THEN /\ e.outcome = "file"
             /\ e.rendered = issued[e.id]
             /\ e.document = render(issued[e.id])
        ELSE /\ e.outcome = "redirect"
             /\ e.flash = flash_not_found
             /\ e.rendered = NoPlan
             /\ e.document = NoPlan

\* an issued plan with attachments downloaded, and an unknown identifier
\* turned away
C4_Witness ==
    /\ \E e \in Downloads :
         /\ e.outcome = "file"
         /\ e.id \in DOMAIN issued
         /\ e.rendered.attachments # <<>>
    /\ \E e \in Downloads : e.outcome = "redirect" /\ e.id \notin DOMAIN issued

\* C5: in every step, whatever the interleaving of the workers, each entry
\* of the store stays as it is; the store changes only in the storing step
\* of a generate request, which adds exactly one identifier; a step of a
\* download request leaves the store unchanged.
C5_WriteOnce ==
    [][ /\ \A i \in DOMAIN store : i \in DOMAIN store' /\ store'[i] = store[i]
        /\ \A w \in Workers :
             (req[w].pc = "store" /\ req'[w].pc = "respond")
                => Cardinality(DOMAIN store') = Cardinality(DOMAIN store) + 1
        /\ store' # store
             => \E w \in Workers : req[w].pc = "store" /\ req'[w].pc = "respond"
        /\ \A w \in Workers :
             ((req[w].kind = "download" \/ req'[w].kind = "download")
                /\ req'[w] # req[w]) => store' = store
      ]_vars

\* two plans stored while one worker is rendering a download and another is
\* between storing and responding
C5_Witness ==
    /\ Cardinality(DOMAIN store) >= 2
    /\ \E v, w \in Workers : req[v].pc = "render" /\ req[w].pc = "respond"

\* what the claim calls a request to reject
DatesRejected(form) ==
    \/ "start_date" \notin DOMAIN form
    \/ "end_date" \notin DOMAIN form
    \/ ~parse_date(form["start_date"]).ok
    \/ ~parse_date(form["end_date"]).ok
    \/ Ordinal(parse_date(form["end_date"]).date)
         < Ordinal(parse_date(form["start_date"]).date)

SameDay(form) ==
    /\ ~DatesRejected(form)
    /\ parse_date(form["end_date"]).date = parse_date(form["start_date"]).date

C6_Finished ==
    \A e \in Generates :
        /\ DatesRejected(e.request.form) =>
             /\ e.outcome = "redirect"
             /\ e.flash \in {flash_bad_dates, flash_end_before_start}
             /\ ~e.extractor_ran
             /\ ~e.builder_ran
             /\ e.itinerary = NoPlan
        /\ SameDay(e.request.form) =>
             /\ e.outcome = "page"
             /\ Len(e.itinerary.days) = 1
             /\ e.itinerary.trip.nights = 1

\* C6: a generate request with a missing or unparsable date, or with end
\* before start, ends in a redirect with an error message without running
\* extractor or builder, and the store changes only on behalf of a request
\* whose dates were accepted; a request with end equal to start is served a
\* one-day plan.
C6_BadDatesRejected ==
    /\ []C6_Finished
    /\ [][ store' # store =>
                \E w \in Workers :
                    /\ req[w].pc = "store"
                    /\ req'[w].pc = "respond"
                    /\ ~DatesRejected(req[w].request.form)
         ]_vars

\* one request rejected for a bad date, one for end before start, and a
\* one-day plan issued
C6_Witness ==
    /\ \E e \in Generates : e.outcome = "redirect" /\ e.flash = flash_bad_dates
    /\ \E e \in Generates : e.outcome = "redirect" /\ e.flash = flash_end_before_start
    /\ \E e \in Generates :
         /\ e.outcome = "page"
         /\ SameDay(e.request.form)
         /\ e.id \in DOMAIN store

(***************************************************************************)
(* The cycle of highlights over the days (checked under SpecBuild)         *)
(***************************************************************************)

\* the fields a day entry copies from a highlight
CopiedFrom(day, h) ==
    /\ day.summary = h.summary
    /\ day.morning = h.morning
    /\ day.afternoon = h.afternoon
    /\ day.evening = h.evening

\* 'Día {k} - {title}' for a day number of one digit
TitleOfDay(k, title) == <<68, 237, 97, 32, 48 + k, 32, 45, 32>> \o title

\* C11: with n highlights selected, each of the first n day entries is made
\* from the highlight at its own position, and every later entry repeats
\* the entry n days before it; entry k (from 1) is titled
\* 'Día k - <title of its highlight>' and copies that highlight's summary,
\* morning, afternoon and evening.
C11_HighlightsCycle ==
    (BuildDone /\ ~b_result.raised /\ b_highlights # <<>>) =>
        LET n == Len(b_highlights)
            days == BuiltPlan.days
        IN  \A k \in 1..Len(days) :
                /\ k < 10
                /\ k <= n =>
                     /\ days[k].title = TitleOfDay(k, b_highlights[k].title)
                     /\ CopiedFrom(days[k], b_highlights[k])
                /\ k > n =>
                     /\ CopiedFrom(days[k], days[k - n])
                     /\ \E h \in { b_highlights[i] : i \in 1..n } :
                          /\ days[k].title = TitleOfDay(k, h.title)
                          /\ days[k - n].title = TitleOfDay(k - n, h.title)

\* a trip longer than its two or more highlights, so that they come round
C11_Witness ==
    /\ BuildDone
    /\ ~b_result.raised
    /\ Len(b_highlights) >= 2
    /\ Len(BuiltPlan.days) > Len(b_highlights)
    /\ BuiltPlan.days[Len(b_highlights) + 1].summary = b_highlights[1].summary

\* C12: the selection _curate_highlights returns is never empty, so the
\* schedule loop never binds the placeholder string and build returns a
\* plan for every request with start <= end.
C12_SelectionNonEmpty ==
    (BuildDone /\ Ordinal(b_request.start_date) <= Ordinal(b_request.end_date)) =>
        /\ b_highlights # <<>>
        /\ ~b_result.raised
        /\ Len(BuiltPlan.days) >= 1

\* no theme keyword among the keywords: the selection is the default catalog
C12_Witness ==
    /\ BuildDone
    /\ PresentThemes = {}
    /\ b_highlights = default_templates
    /\ ~b_result.raised
    /\ Len(BuiltPlan.days) > 1

====
